---- MODULE Spec2Model ----
(***************************************************************************)
(* A model of the delay-discounting MVPA first-level pipeline:             *)
(*   io_utils.resolve_file, design_utils.get_exclusion_data and            *)
(*   design_utils.create_design_matrices (the per-subject inclusion        *)
(*   checks), design_utils.make_stick_array, create_cosine_drift and       *)
(*   create_design_matrix, fmri_io (grand-mean scaling, masked loading),   *)
(*   fmri_model (OLS betas, saving the beta series) and run_lsa.main.      *)
(* Files on disk, images and tables are modelled by the facts the code     *)
(* reads from them; exceptions are modelled as outcomes.                   *)
(***************************************************************************)
EXTENDS Integers, Sequences, FiniteSets, TLC

VARIABLES
    cfg,              \* the attribute names the cfg object has
    files,            \* per subject: what is on disk for that subject
    exclusion_csv,    \* BIDS/suggested_exclusions.csv: "missing" | "unlabelled" | "ok"
    subids,           \* create_design_matrices: the input list
    valid_subids,     \* create_design_matrices: local list
    bold_paths,       \* create_design_matrices: local list
    design_matrices,  \* create_design_matrices: local list
    status_records,   \* create_design_matrices: local list
    cdm_pc,           \* "idle" | "returned" | the exception that left the call
    rf_args,          \* resolve_file: the (subject_id, kind) of the call
    rf_result,        \* resolve_file: what the call gave
    main_subid,       \* run_lsa.main: the subid argument
    main_steps,       \* run_lsa.main: the pipeline steps entered, in order
    main_pc,          \* run_lsa.main: "idle" | "returned" | the exception
    outputs,          \* run_lsa.main: the files written under outdir
    desmat,           \* save_beta_series: the design matrix's column names
    betas,            \* save_beta_series: betas[row][voxel of the mask]
    brain_mask,       \* the voxels of the subject's brain mask (the masker)
    group_mask,       \* masks_dir/brain_mask.nii.gz: whether it exists, its voxels
    beta_file,        \* sub-<id>_beta_series.nii.gz: volumes over the grid
    labels_file,      \* sub-<id>_beta_labels.csv: the labels written
    save_pc,          \* "idle" | "saved" | "loaded" | the exception
    save_return,      \* what save_beta_series returned
    estimates,        \* load_bold_estimates: the data array read back
    X,                \* compute_betas: desmat, X[time][beta]
    Y,                \* compute_betas: data_array, Y[time][voxel]
    ols,              \* compute_betas: the outcome
    bold_img,         \* the BOLD image, bold_img[time][voxel of the grid]
    roi_mask,         \* roi_mask_name, whether masks_dir has it, its voxels
    mask_type,        \* load_and_gm_scale_bold_data: the mask_type argument
    scaled,           \* load_and_gm_scale_bold_data: the outcome
    stick_args,       \* make_stick_array: onsets, durations, length, resolution
    sf,               \* make_stick_array: the outcome
    drift_args,       \* create_cosine_drift: cutoff_hz, timepoints
    dct_basis,        \* create_cosine_drift: the outcome
    dm_args,          \* create_design_matrix: the arguments
    desmtx_conv       \* create_design_matrix: the outcome

designVars == <<cfg, files, exclusion_csv, subids, valid_subids, bold_paths,
                design_matrices, status_records, cdm_pc>>
resolveVars == <<rf_args, rf_result>>
mainVars == <<main_subid, main_steps, main_pc, outputs>>
saveVars == <<desmat, betas, brain_mask, group_mask, beta_file, labels_file,
              save_pc, save_return, estimates>>
olsVars == <<X, Y, ols>>
scaleVars == <<bold_img, roi_mask, mask_type, scaled>>
stickVars == <<stick_args, sf>>
driftVars == <<drift_args, dct_basis>>
matrixVars == <<dm_args, desmtx_conv>>

vars == <<designVars, resolveVars, mainVars, saveVars, olsVars, scaleVars,
          stickVars, driftVars, matrixVars>>

(***************************************************************************)
(* Bounds of the model.                                                    *)
(***************************************************************************)
MaxSubs == 2        \* longest input list of subject ids
MaxMatches == 2     \* most files a glob pattern matches
MaxRows == 2        \* most rows of suggested_exclusions.csv per subject
MaxCols == 3        \* most columns of a design matrix
GridSize == 2       \* voxels of the image grid
MaxTime == 3        \* timepoints of a design matrix

Subjects == {"s01", "s02"}
NoException == "none"

\* All sequences over S of length at most n.
SeqsUpTo(S, n) == UNION {[1..k -> S] : k \in 0..n}

(***************************************************************************)
(* The part of the state an operation does not use stays at these values.  *)
(***************************************************************************)
NoCall == [sub |-> "", kind |-> ""]
Nothing == "nothing"
\* A file that is not on disk, as a mask, an image and a table.
NoMask == [exists |-> FALSE, voxels |-> {}]
NoImage == [exists |-> FALSE, vols |-> <<>>]
NoTable == [exists |-> FALSE, rows |-> <<>>]
\* The value of a call that has not returned, Python's None, and a list.
NotReturned == [kind |-> "not returned", items |-> <<>>]
None == [kind |-> "None", items |-> <<>>]
List(items) == [kind |-> "list", items |-> items]

IdleDesign ==
    /\ exclusion_csv = "ok"
    /\ subids = <<>>
    /\ valid_subids = <<>>
    /\ bold_paths = <<>>
    /\ design_matrices = <<>>
    /\ status_records = <<>>
    /\ cdm_pc = "idle"

IdleResolve == rf_args = NoCall /\ rf_result = Nothing

IdleMain ==
    /\ main_subid = ""
    /\ main_steps = <<>>
    /\ main_pc = "idle"
    /\ outputs = {}

IdleSave ==
    /\ desmat = <<>>
    /\ betas = <<>>
    /\ brain_mask = {}
    /\ group_mask = NoMask
    /\ beta_file = NoImage
    /\ labels_file = NoTable
    /\ save_pc = "idle"
    /\ save_return = NotReturned
    /\ estimates = <<>>

NoBetas == [exc |-> "not called", num |-> <<>>, den |-> 1]
IdleOLS == X = <<>> /\ Y = <<>> /\ ols = NoBetas

NotScaled == [exc |-> "not called", data |-> <<>>, masker |-> {}]
IdleScale ==
    /\ bold_img = <<>>
    /\ roi_mask = [name |-> "None", exists |-> FALSE, voxels |-> {}]
    /\ mask_type = ""
    /\ scaled = NotScaled

NotCalled == [exc |-> "not called", array |-> <<>>]
IdleStick ==
    /\ stick_args = [onsets |-> <<>>, durations |-> <<>>, length |-> 0,
                     resolution |-> 1]
    /\ sf = NotCalled
IdleDrift ==
    /\ drift_args = [cutoff_hz |-> [num |-> 0, den |-> 1], timepoints |-> <<>>]
    /\ dct_basis = NotCalled
IdleMatrix ==
    /\ dm_args = [events_df_long |-> <<>>, hp_filter_cutoff |-> [num |-> 0, den |-> 1],
                  oversampling |-> 1, tr |-> 1, num_trs |-> 0, add_deriv |-> FALSE,
                  ceil_excess |-> 0]
    /\ desmtx_conv = NotCalled


(***************************************************************************)
(* config_loader.Config: the attributes an instance has after __init__     *)
(* and __post_init__.  The class is an ordinary dataclass, so an instance  *)
(* may be given further attributes after construction.                     *)
(***************************************************************************)
ConfigInitFields ==
    {"data_root", "fmriprep_dir", "behavior_dir", "output_root", "output_dir",
     "behavioral_output", "mvpa_output", "task_name", "bold_func_glob",
     "bold_data_suffix", "masks_dir", "core_mask_files", "optional_mask_files",
     "tr"}

ConfigDerivedFields ==
    {"bold_file_glob", "bold_mask_file_glob", "resolved_core_masks",
     "resolved_optional_masks"}

ConfigAttrs == ConfigInitFields \cup ConfigDerivedFields

\* A Config instance on which bids_dir and behav_file_glob were set by hand.
PatchedConfigAttrs == ConfigAttrs \cup {"bids_dir", "behav_file_glob"}

(***************************************************************************)
(* io_utils.resolve_file.  The attributes each kind's pattern reads, the   *)
(* glob, and the three ways the call ends.                                 *)
(***************************************************************************)
PatternAttrs(kind) ==
    CASE kind = "bold"  -> {"fmriprep_dir", "bold_file_glob"}
      [] kind = "mask"  -> {"fmriprep_dir", "bold_mask_file_glob"}
      [] kind = "behav" -> {"bids_dir", "behav_file_glob"}
      [] OTHER          -> {}

\* glob(pattern): the number of paths the pattern of `kind` matches.
glob(fs, subject_id, kind) ==
    CASE kind = "bold"  -> fs[subject_id].nbold
      [] kind = "mask"  -> fs[subject_id].nmask
      [] kind = "behav" -> fs[subject_id].nbehav
      [] OTHER          -> 0

Path(subject_id, kind) == [sub |-> subject_id, kind |-> kind]
NoPath == [sub |-> "", kind |-> ""]

resolve_file(c, fs, subject_id, kind) ==
    IF kind \notin {"bold", "mask", "behav"}
    THEN [exc |-> "ValueError", path |-> NoPath]
    ELSE IF ~(PatternAttrs(kind) \subseteq c)
    THEN [exc |-> "AttributeError", path |-> NoPath]
    ELSE IF glob(fs, subject_id, kind) = 0
    THEN [exc |-> "ValueError", path |-> NoPath]
    ELSE IF glob(fs, subject_id, kind) > 1
    THEN [exc |-> "ValueError", path |-> NoPath]
    ELSE [exc |-> NoException, path |-> Path(subject_id, kind)]

\* io_utils.load_tsv_data: only a .tsv path is read.
load_tsv_data(fs, path) ==
    IF ~fs[path.sub].behav_tsv
    THEN [exc |-> "ValueError"]
    ELSE [exc |-> NoException]

(***************************************************************************)
(* design_utils.get_exclusion_data.  A row of suggested_exclusions.csv is  *)
(* its task (the part of 'subject_task' after the first '_') and one value *)
(* per criterion column; files[s].excl_rows are the rows whose subject     *)
(* part is s, in file order.                                               *)
(***************************************************************************)
CriteriaCols == <<"crit_a", "crit_b">>

IsDiscountFix(row) == row.task = "discountFix"

get_exclusion_data(c, csv, fs) ==
    IF "data_root" \notin c
    THEN [exc |-> "AttributeError", data |-> [s \in Subjects |-> <<>>]]
    ELSE IF csv = "missing"
    THEN [exc |-> "FileNotFoundError", data |-> [s \in Subjects |-> <<>>]]
    ELSE IF csv = "unlabelled"
    THEN [exc |-> "ValueError", data |-> [s \in Subjects |-> <<>>]]
    ELSE [exc |-> NoException,
          data |-> [s \in Subjects |-> SelectSeq(fs[s].excl_rows, IsDiscountFix)]]

(***************************************************************************)
(* design_utils.create_design_matrices, lines 339-351: the criteria met by *)
(* the rows of one subject.                                                *)
(***************************************************************************)
RECURSIVE ColsWhere(_, _, _)
\* The names cols[i..] whose flag[i] holds, in column order.
ColsWhere(cols, flag, i) ==
    IF i > Len(cols) THEN <<>>
    ELSE (IF flag[i] THEN <<cols[i]>> ELSE <<>>) \o ColsWhere(cols, flag, i + 1)

criteria_met_AnyColumn(sub_excl_row) ==
    IF sub_excl_row = <<>> THEN <<>>
    ELSE IF \E i \in 1..Len(CriteriaCols) : sub_excl_row[1].vals[i] # 0
         THEN CriteriaCols ELSE <<>>

criteria_met(sub_excl_row) ==
    IF sub_excl_row = <<>> THEN <<>>
    ELSE LET nonzero_cols == [i \in 1..Len(CriteriaCols) |->
                                 sub_excl_row[1].vals[i] # 0]
         IN ColsWhere(CriteriaCols, nonzero_cols, 1)

(***************************************************************************)
(* design_utils.create_design_matrices, lines 326-433: one pass of the     *)
(* loop body for subid.  The result says how the pass ended: an exception  *)
(* that leaves the function (exc), or a status record and, on success, the *)
(* BOLD path and the design matrix.                                        *)
(***************************************************************************)
CaughtByLoop == {"FileNotFoundError", "KeyError", "ValueError"}

Reason(tag, detail) == [tag |-> tag, detail |-> detail]
NoMatrix == [sub |-> "", num_trs |-> 0]

Skip(subid, reason) ==
    [exc |-> NoException,
     record |-> [sub_id |-> subid, include |-> FALSE, reason |-> reason],
     bold_file |-> NoPath, design_matrix |-> NoMatrix]

Escapes(exc) ==
    [exc |-> exc,
     record |-> [sub_id |-> "", include |-> FALSE, reason |-> Reason("", <<>>)],
     bold_file |-> NoPath, design_matrix |-> NoMatrix]

\* lines 353-433: the checks after the exclusion table.
ChecksAfterExclusion(c, fs, subid, tr) ==
    LET f == fs[subid]
        bold_res == resolve_file(c, fs, subid, "bold")
        scan_duration == f.n_scans * tr
    IN
    IF f.num_ss = 0 \/ f.num_ll = 0
    THEN Skip(subid, Reason("singular response", <<f.num_ss, f.num_ll>>))
    ELSE IF bold_res.exc \in CaughtByLoop
    THEN Skip(subid, Reason("BOLD missing", <<bold_res.exc>>))
    ELSE IF bold_res.exc # NoException
    THEN Escapes(bold_res.exc)
    ELSE IF ~f.header_ok
    THEN Skip(subid, Reason("cannot read BOLD header", <<>>))
    ELSE IF f.max_onset > scan_duration
    THEN Skip(subid, Reason("onset beyond scan duration",
                            <<f.max_onset, scan_duration>>))
    ELSE IF ~f.dm_ok
    THEN Skip(subid, Reason("design matrix error", <<>>))
    ELSE [exc |-> NoException,
          record |-> [sub_id |-> subid, include |-> TRUE,
                      reason |-> Reason("Passed all checks", <<>>)],
          bold_file |-> bold_res.path,
          design_matrix |-> [sub |-> subid, num_trs |-> f.n_scans]]

LoopBody(c, fs, exclusion_data, subid, tr) ==
    LET behav == resolve_file(c, fs, subid, "behav")
        tsv == load_tsv_data(fs, behav.path)
        met == criteria_met(exclusion_data[subid])
    IN
    IF behav.exc \in CaughtByLoop
    THEN Skip(subid, Reason("behav missing", <<behav.exc>>))
    ELSE IF behav.exc # NoException
    THEN Escapes(behav.exc)
    ELSE IF tsv.exc \in CaughtByLoop
    THEN Skip(subid, Reason("behav missing", <<tsv.exc>>))
    ELSE IF met # <<>>
    THEN Skip(subid, Reason("met suggested_exclusion.csv criteria", met))
    ELSE ChecksAfterExclusion(c, fs, subid, tr)

\* The locals of create_design_matrices before the loop (lines 318-321).
EmptyLocals ==
    [valid_subids |-> <<>>, bold_paths |-> <<>>, design_matrices |-> <<>>,
     status_records |-> <<>>, exc |-> NoException]

\* As AfterPass, but the BOLD path is stored before the design matrix is
\* tried, so a subject whose design matrix fails leaves its path behind.
AfterPass_PathBeforeMatrix(loc, r) ==
    IF r.exc # NoException
    THEN [loc EXCEPT !.exc = r.exc]
    ELSE IF ~r.record.include
    THEN [loc EXCEPT !.status_records = Append(@, r.record),
                     !.bold_paths =
                         IF r.record.reason.tag = "design matrix error"
                         THEN Append(@, Path(r.record.sub_id, "bold")) ELSE @]
    ELSE [loc EXCEPT !.valid_subids = Append(@, r.record.sub_id),
                     !.bold_paths = Append(@, r.bold_file),
                     !.design_matrices = Append(@, r.design_matrix),
                     !.status_records = Append(@, r.record)]

\* What one pass does to the locals.
AfterPass(loc, r) ==
    IF r.exc # NoException
    THEN [loc EXCEPT !.exc = r.exc]
    ELSE IF ~r.record.include
    THEN [loc EXCEPT !.status_records = Append(@, r.record)]
    ELSE [loc EXCEPT !.valid_subids = Append(@, r.record.sub_id),
                     !.bold_paths = Append(@, r.bold_file),
                     !.design_matrices = Append(@, r.design_matrix),
                     !.status_records = Append(@, r.record)]

RECURSIVE Loop(_, _, _, _, _, _, _)
\* for subid in subids: the passes from index i on, until one raises.
Loop(c, fs, exclusion_data, ids, tr, i, loc) ==
    IF i > Len(ids) \/ loc.exc # NoException THEN loc
    ELSE Loop(c, fs, exclusion_data, ids, tr, i + 1,
              AfterPass(loc, LoopBody(c, fs, exclusion_data, ids[i], tr)))

\* The repetition time the callers pass.
TR == 1

\* create_design_matrices(cfg, subids, tr, hp_filter_cutoff): the whole call.
create_design_matrices ==
    /\ cdm_pc = "idle"
    /\ LET excl == get_exclusion_data(cfg, exclusion_csv, files)
           loc == IF excl.exc # NoException
                  THEN [EmptyLocals EXCEPT !.exc = excl.exc]
                  ELSE Loop(cfg, files, excl.data, subids, TR, 1, EmptyLocals)
       IN /\ valid_subids' = loc.valid_subids
          /\ bold_paths' = loc.bold_paths
          /\ design_matrices' = loc.design_matrices
          /\ status_records' = loc.status_records
          /\ cdm_pc' = IF loc.exc = NoException THEN "returned" ELSE loc.exc
    /\ UNCHANGED <<cfg, files, exclusion_csv, subids>>
    /\ UNCHANGED <<resolveVars, mainVars, saveVars, olsVars, scaleVars, stickVars, driftVars,
                   matrixVars>>

(***************************************************************************)
(* The inputs of create_design_matrices: what is on disk for each subject. *)
(* A fact the loop body never reads, because an earlier check already      *)
(* ended the pass, is fixed to its passing value.                          *)
(***************************************************************************)
Bits == {0, 1}
ExclRows ==
    {[task |-> "discountFix", vals |-> v] : v \in [1..Len(CriteriaCols) -> Bits]}
    \cup {[task |-> "other", vals |-> [i \in 1..Len(CriteriaCols) |-> 1]]}

BehavFacts ==
    {[nbehav |-> n, behav_tsv |-> t, num_ss |-> a, num_ll |-> b] :
        n \in 0..MaxMatches, t \in BOOLEAN, a \in Bits, b \in Bits}

BoldFacts ==
    {[nbold |-> n, header_ok |-> h, max_onset |-> m, dm_ok |-> d] :
        n \in 0..MaxMatches, h \in BOOLEAN, m \in {1, 5}, d \in BOOLEAN}

PassingBehav == [nbehav |-> 1, behav_tsv |-> TRUE, num_ss |-> 1, num_ll |-> 1]
PassingBold == [nbold |-> 1, header_ok |-> TRUE, max_onset |-> 1, dm_ok |-> TRUE]

SubjectFiles(b, o, rows) ==
    [nbehav |-> b.nbehav, behav_tsv |-> b.behav_tsv, num_ss |-> b.num_ss,
     num_ll |-> b.num_ll, nbold |-> o.nbold, nmask |-> 1,
     header_ok |-> o.header_ok, n_scans |-> 2, max_onset |-> o.max_onset,
     dm_ok |-> o.dm_ok, excl_rows |-> rows]

\* The subject is dropped by the checks of lines 330-351.
EndsBeforeChoices(b, rows) ==
    \/ b.nbehav # 1
    \/ ~b.behav_tsv
    \/ criteria_met(SelectSeq(rows, IsDiscountFix)) # <<>>

Canonical(b, o, rows) ==
    /\ b.nbehav # 1 => b.behav_tsv
    /\ EndsBeforeChoices(b, rows) => b.num_ss = 1 /\ b.num_ll = 1
    /\ (EndsBeforeChoices(b, rows) \/ b.num_ss = 0 \/ b.num_ll = 0)
           => o = PassingBold
    /\ o.nbold # 1 => o.header_ok
    /\ (o.nbold # 1 \/ ~o.header_ok) => o.max_onset = 1
    /\ (o.nbold # 1 \/ ~o.header_ok \/ o.max_onset # 1) => o.dm_ok

FilesOf(rowSeqs) ==
    {SubjectFiles(b, o, rows) : <<b, o, rows>> \in
        {t \in BehavFacts \X BoldFacts \X rowSeqs : Canonical(t[1], t[2], t[3])}}

\* s01 has any exclusion rows; the other subjects have none or one.
StudyFiles == FilesOf(SeqsUpTo(ExclRows, MaxRows))
OtherFiles == FilesOf({<<>>, <<[task |-> "discountFix", vals |-> <<1, 0>>]>>})

InitDesign ==
    /\ cfg \in {ConfigAttrs, PatchedConfigAttrs}
    /\ exclusion_csv \in {"missing", "unlabelled", "ok"}
    /\ files \in {f \in [Subjects -> StudyFiles \cup OtherFiles] :
                    /\ \A s \in Subjects \ {"s01"} : f[s] \in OtherFiles
                    /\ exclusion_csv # "ok" =>
                          \A s \in Subjects : f[s].excl_rows = <<>>}
    /\ subids \in SeqsUpTo(Subjects, MaxSubs)
    /\ valid_subids = <<>>
    /\ bold_paths = <<>>
    /\ design_matrices = <<>>
    /\ status_records = <<>>
    /\ cdm_pc = "idle"
    /\ IdleResolve /\ IdleMain /\ IdleSave /\ IdleOLS /\ IdleScale
    /\ IdleStick /\ IdleDrift /\ IdleMatrix

NextDesign == create_design_matrices

SpecDesign == InitDesign /\ [][NextDesign]_vars

(***************************************************************************)
(* Properties of create_design_matrices.                                   *)
(***************************************************************************)
\* The discountFix rows of subject s, in file order.
DiscountFixRows(s) ==
    LET rows == files[s].excl_rows
        idx == {i \in 1..Len(rows) : rows[i].task = "discountFix"}
        nth(k) == CHOOSE i \in idx : Cardinality({j \in idx : j <= i}) = k
    IN [k \in 1..Cardinality(idx) |-> rows[nth(k)]]

\* The criteria columns that are nonzero in row.
NonzeroColumns(row) ==
    LET nz == {i \in 1..Len(CriteriaCols) : row.vals[i] # 0}
        nth(k) == CHOOSE i \in nz : Cardinality({j \in nz : j <= i}) = k
    IN [k \in 1..Cardinality(nz) |-> CriteriaCols[nth(k)]]

FirstRowExcludes(s) ==
    /\ DiscountFixRows(s) # <<>>
    /\ NonzeroColumns(DiscountFixRows(s)[1]) # <<>>

BehavLoads(s) == files[s].nbehav = 1 /\ files[s].behav_tsv

PassesEveryCheck(s) ==
    /\ BehavLoads(s)
    /\ ~FirstRowExcludes(s)
    /\ files[s].num_ss > 0 /\ files[s].num_ll > 0
    /\ files[s].nbold = 1
    /\ files[s].header_ok
    /\ files[s].max_onset <= files[s].n_scans * TR
    /\ files[s].dm_ok

\* C2: when create_design_matrices returns, valid_subids, bold_paths and
\* design_matrices have the same length, entry i of each belongs to the same
\* subject, and valid_subids is the input list restricted, in input order, to
\* the subjects that pass every inclusion check.
C2_AlignedValidLists ==
    cdm_pc = "returned" =>
        /\ Len(bold_paths) = Len(valid_subids)
        /\ Len(design_matrices) = Len(valid_subids)
        /\ \A i \in 1..Len(valid_subids) :
              /\ bold_paths[i] = Path(valid_subids[i], "bold")
              /\ design_matrices[i].sub = valid_subids[i]
        /\ valid_subids = SelectSeq(subids, PassesEveryCheck)

\* A returned call that dropped the first subject and kept the second.
C2_Witness ==
    /\ cdm_pc = "returned"
    /\ Len(subids) = 2
    /\ subids[1] # subids[2]
    /\ valid_subids = <<subids[2]>>
    /\ bold_paths = <<Path(subids[2], "bold")>>

\* C3: whatever per-subject failure occurs, the call goes on to the next
\* subject and returns a status table with one record per input subject, in
\* input order, include = True with reason 'Passed all checks' exactly for
\* the subjects of valid_subids and include = False with a reason otherwise.
C3_OneRecordPerSubject ==
    (cdm_pc # "idle" /\ exclusion_csv = "ok") =>
        /\ cdm_pc = "returned"
        /\ Len(status_records) = Len(subids)
        /\ \A i \in 1..Len(status_records) :
              /\ status_records[i].sub_id = subids[i]
              /\ status_records[i].include =>
                    status_records[i].reason = Reason("Passed all checks", <<>>)
              /\ ~status_records[i].include =>
                    status_records[i].reason.tag
                        \notin {"", "Passed all checks"}
        /\ valid_subids =
              SelectSeq([i \in 1..Len(status_records) |->
                            IF status_records[i].include
                            THEN status_records[i].sub_id ELSE ""],
                        LAMBDA x : x # "")

\* C4 as claimed: a listed subject with a discountFix row that has a nonzero
\* criterion is not in valid_subids and its status reason names the nonzero
\* criteria columns; a subject without such a row is not excluded by the
\* exclusion check.
AnyRowExcludes(s) ==
    \E k \in 1..Len(DiscountFixRows(s)) :
        NonzeroColumns(DiscountFixRows(s)[k]) # <<>>

ExclusionTag == "met suggested_exclusion.csv criteria"

C4_AsClaimed ==
    cdm_pc = "returned" =>
        \A i \in 1..Len(subids) :
            IF AnyRowExcludes(subids[i])
            THEN /\ \A j \in 1..Len(valid_subids) : valid_subids[j] # subids[i]
                 /\ \E k \in 1..Len(DiscountFixRows(subids[i])) :
                       status_records[i].reason =
                           Reason(ExclusionTag,
                                  NonzeroColumns(DiscountFixRows(subids[i])[k]))
            ELSE status_records[i].reason.tag # ExclusionTag

\* C4 as amended: of the subjects whose behavioural file was resolved and
\* loaded, the one whose first discountFix row has a nonzero criterion is not
\* in valid_subids and its status reason names exactly the columns that are
\* nonzero in that row; a subject whose behavioural file does not load, who
\* has no discountFix row, or whose first discountFix row is all zero is not
\* excluded by the exclusion check.
C4_ExclusionByFirstRow ==
    cdm_pc = "returned" =>
        \A i \in 1..Len(subids) :
            IF BehavLoads(subids[i]) /\ FirstRowExcludes(subids[i])
            THEN /\ \A j \in 1..Len(valid_subids) : valid_subids[j] # subids[i]
                 /\ status_records[i].reason =
                       Reason(ExclusionTag,
                              NonzeroColumns(DiscountFixRows(subids[i])[1]))
            ELSE status_records[i].reason.tag # ExclusionTag

\* A returned call whose second subject was excluded for crit_b alone, by a
\* discountFix row that follows a row of another task.
C4_Witness ==
    /\ cdm_pc = "returned"
    /\ Len(subids) = 2
    /\ files[subids[2]].excl_rows # <<>>
    /\ files[subids[2]].excl_rows[1].task = "other"
    /\ status_records[2].reason = Reason(ExclusionTag, <<"crit_b">>)
    /\ valid_subids = <<subids[1]>>

(***************************************************************************)
(* A call of io_utils.resolve_file(cfg, subject_id, kind).                 *)
(***************************************************************************)
Kinds == {"bold", "mask", "behav", "events"}

GlobFacts ==
    [nbold : 0..MaxMatches, nmask : 0..MaxMatches, nbehav : 0..MaxMatches]

resolve_file_call(subject_id, kind) ==
    /\ rf_args = NoCall
    /\ rf_args' = [sub |-> subject_id, kind |-> kind]
    /\ rf_result' = resolve_file(cfg, files, subject_id, kind)
    /\ UNCHANGED <<designVars, mainVars, saveVars, olsVars, scaleVars, stickVars, driftVars,
                   matrixVars>>

InitResolve ==
    /\ cfg \in {ConfigAttrs, PatchedConfigAttrs}
    /\ files \in [Subjects -> GlobFacts]
    /\ IdleDesign /\ IdleResolve /\ IdleMain /\ IdleSave /\ IdleOLS /\ IdleScale
    /\ IdleStick /\ IdleDrift /\ IdleMatrix

NextResolve == \E s \in Subjects, k \in Kinds : resolve_file_call(s, k)

SpecResolve == InitResolve /\ [][NextResolve]_vars

\* C10: called with a Config object, resolve_file ends in one of two ways:
\* for kind 'bold', 'mask' or 'behav' with exactly one matching file it
\* returns that file's path; for any other kind, or with zero or several
\* matches, it raises ValueError.
C10_PathOrValueError ==
    rf_args # NoCall =>
        IF /\ rf_args.kind \in {"bold", "mask", "behav"}
           /\ glob(files, rf_args.sub, rf_args.kind) = 1
        THEN rf_result = [exc |-> NoException,
                          path |-> Path(rf_args.sub, rf_args.kind)]
        ELSE rf_result.exc = "ValueError"

(***************************************************************************)
(* run_lsa.main(subid, hp_filter_cutoff, outdir, config_file).             *)
(***************************************************************************)
\* The parameters of the dataclass's generated __init__, in order, and the
\* ones that have a default.
ConfigInitOrder ==
    <<"data_root", "fmriprep_dir", "behavior_dir", "output_root", "output_dir",
      "behavioral_output", "mvpa_output", "task_name", "bold_func_glob",
      "bold_data_suffix", "masks_dir", "core_mask_files", "optional_mask_files",
      "tr">>

ConfigDefaulted == {"core_mask_files", "optional_mask_files", "tr"}

\* Config(*args, **kwargs) with npos positional arguments and the keywords kw.
Config_init(npos, kw) ==
    LET positional == {ConfigInitOrder[i] : i \in 1..npos}
        given == positional \cup kw
    IN IF \/ npos > Len(ConfigInitOrder)
          \/ ~(kw \subseteq ConfigInitFields)
          \/ kw \cap positional # {}
          \/ ~((ConfigInitFields \ ConfigDefaulted) \subseteq given)
       THEN [exc |-> "TypeError", attrs |-> {}]
       ELSE [exc |-> NoException, attrs |-> ConfigAttrs]

\* What create_design_matrices returns (line 436), and the names main
\* unpacks it into (run_lsa.py line 23).
ReturnTuple(loc) ==
    <<loc.valid_subids, loc.bold_paths, loc.design_matrices, loc.status_records>>

MainUnpackTargets == <<"_", "bold_paths", "design_matrices">>

\* The exception, if any, of load_and_gm_scale_bold_data(cfg, subid,
\* mask_type='brain'): the files it resolves (fmri_io.py lines 87, 37-38).
LoadBoldException(c, fs, subid) ==
    LET first == resolve_file(c, fs, subid, "bold")
        mask == resolve_file(c, fs, subid, "mask")
    IN IF first.exc # NoException THEN first.exc ELSE mask.exc

PipelineSteps ==
    <<"load config", "build design matrix", "load and scale data",
      "compute betas", "write outputs">>

BetaSeriesFile(subid) == [sub |-> subid, name |-> "beta_series.nii.gz"]
BetaLabelsFile(subid) == [sub |-> subid, name |-> "beta_labels.csv"]

\* How main ends: the steps it entered, the exception that left it (or
\* none), the cfg it built and the files it wrote.
MainRun(fs, csv, subid) ==
    LET made == Config_init(1, {"validate"})
        c == made.attrs
        excl == get_exclusion_data(c, csv, fs)
        loc == IF excl.exc # NoException
               THEN [EmptyLocals EXCEPT !.exc = excl.exc]
               ELSE Loop(c, fs, excl.data, <<subid>>, TR, 1, EmptyLocals)
        load_exc == LoadBoldException(c, fs, subid)
        End(n, exc, written) ==
            [steps |-> SubSeq(PipelineSteps, 1, n), exc |-> exc, cfg |-> c,
             outputs |-> written]
    IN
    IF made.exc # NoException THEN End(1, made.exc, {})
    ELSE IF "fmri" \notin c THEN End(1, "AttributeError", {})
    ELSE IF loc.exc # NoException THEN End(2, loc.exc, {})
    ELSE IF Len(ReturnTuple(loc)) # Len(MainUnpackTargets)
    THEN End(2, "ValueError", {})
    ELSE IF loc.design_matrices = <<>> THEN End(2, "IndexError", {})
    ELSE IF load_exc # NoException THEN End(3, load_exc, {})
    ELSE End(5, NoException, {BetaSeriesFile(subid), BetaLabelsFile(subid)})

main ==
    /\ main_pc = "idle"
    /\ LET r == MainRun(files, exclusion_csv, main_subid)
       IN /\ main_steps' = r.steps
          /\ main_pc' = IF r.exc = NoException THEN "returned" ELSE r.exc
          /\ outputs' = r.outputs
          /\ cfg' = r.cfg
    /\ UNCHANGED <<files, exclusion_csv, subids, valid_subids, bold_paths,
                   design_matrices, status_records, cdm_pc, main_subid>>
    /\ UNCHANGED <<resolveVars, saveVars, olsVars, scaleVars, stickVars, driftVars,
                   matrixVars>>

Init ==
    /\ cfg = {}
    /\ exclusion_csv \in {"missing", "unlabelled", "ok"}
    /\ files \in {f \in [Subjects -> {[o EXCEPT !.nmask = n] :
                                        o \in OtherFiles, n \in 0..MaxMatches}] :
                    exclusion_csv # "ok" =>
                        \A s \in Subjects : f[s].excl_rows = <<>>}
    /\ subids = <<>>
    /\ valid_subids = <<>>
    /\ bold_paths = <<>>
    /\ design_matrices = <<>>
    /\ status_records = <<>>
    /\ cdm_pc = "idle"
    /\ main_subid \in Subjects
    /\ main_steps = <<>>
    /\ main_pc = "idle"
    /\ outputs = {}
    /\ IdleResolve /\ IdleSave /\ IdleOLS /\ IdleScale
    /\ IdleStick /\ IdleDrift /\ IdleMatrix

Next == main

Spec == Init /\ [][Next]_vars

\* C1: a run of main performs load config, build design matrix, load and
\* scale imaging data, compute betas, write outputs, each once and in this
\* order, and for a subject that passes every inclusion check it reaches the
\* write-outputs step: the beta series image and the labels file are written.
C1_PipelineReachesOutputs ==
    main_pc # "idle" =>
        /\ \E n \in 0..Len(PipelineSteps) :
              main_steps = SubSeq(PipelineSteps, 1, n)
        /\ ( /\ exclusion_csv = "ok"
             /\ PassesEveryCheck(main_subid)
             /\ files[main_subid].nmask = 1 )
           => /\ main_pc = "returned"
              /\ main_steps = PipelineSteps
              /\ outputs = {BetaSeriesFile(main_subid),
                            BetaLabelsFile(main_subid)}

(***************************************************************************)
(* fmri_model.save_beta_series and fmri_io.load_bold_estimates.            *)
(* A column name is the sequence of its pieces: words, '_' and runs of     *)
(* digits, so 'smaller_sooner_12' is <<"smaller","_","sooner","_","12">>   *)
(* and 'cosine0' is <<"cosine","0">>.  An image is one map per volume from *)
(* the voxels of the grid to values; a masked array has one column per     *)
(* voxel of its mask, in grid order.                                       *)
(***************************************************************************)
Grid == 1..GridSize
DigitRuns == {"0", "1", "2", "3", "12"}
TrialKeywords == {"smaller", "larger", "false"}

\* desmat.columns.str.contains(r'(?:smaller|larger|false)'), line 73.
keep_mask_NoFalse(columns) ==
    [i \in 1..Len(columns) |->
        \E j \in 1..Len(columns[i]) : columns[i][j] \in {"smaller", "larger"}]

keep_mask(columns) ==
    [i \in 1..Len(columns) |->
        \E j \in 1..Len(columns[i]) : columns[i][j] \in TrialKeywords]

RECURSIVE RowsWhere(_, _, _)
\* rows[mask]: the entries rows[i..] whose mask[i] holds, in order.
RowsWhere(rows, mask, i) ==
    IF i > Len(rows) THEN <<>>
    ELSE (IF mask[i] THEN <<rows[i]>> ELSE <<>>) \o RowsWhere(rows, mask, i + 1)

\* re.sub(r'_\d+$', '', lbl), line 77.
simplify_label(lbl) ==
    LET n == Len(lbl) IN
    IF n >= 2 /\ lbl[n - 1] = "_" /\ lbl[n] \in DigitRuns
    THEN SubSeq(lbl, 1, n - 2)
    ELSE lbl

\* The position of voxel v among the voxels of mask, in grid order.
Rank(mask, v) == Cardinality({w \in mask : w <= v})
\* The k-th voxel of mask.
VoxelAt(mask, k) == CHOOSE v \in mask : Rank(mask, v) = k

\* NiftiMasker.inverse_transform: each row becomes a volume, 0 outside the mask.
inverse_transform(mask, array) ==
    [vol \in 1..Len(array) |->
        [v \in Grid |-> IF v \in mask THEN array[vol][Rank(mask, v)] ELSE 0]]

\* NiftiMasker.fit_transform: each volume becomes a row over the mask's voxels.
fit_transform(mask, img) ==
    [vol \in 1..Len(img) |->
        [k \in 1..Cardinality(mask) |-> img[vol][VoxelAt(mask, k)]]]

\* save_beta_series(betas, desmat, data_masker, subid, output_dir).
save_beta_series ==
    /\ save_pc = "idle"
    /\ LET mask == keep_mask(desmat)
           kept_labels == RowsWhere(desmat, mask, 1)
           simplified_labels == [i \in 1..Len(kept_labels) |->
                                    simplify_label(kept_labels[i])]
           betas_kept == RowsWhere(betas, mask, 1)
       IN /\ beta_file' = [exists |-> TRUE,
                          vols |-> inverse_transform(brain_mask, betas_kept)]
          /\ labels_file' = [exists |-> TRUE, rows |-> simplified_labels]
          /\ save_return' = None
    /\ save_pc' = "saved"
    /\ UNCHANGED <<desmat, betas, brain_mask, group_mask, estimates>>
    /\ UNCHANGED <<designVars, resolveVars, mainVars, olsVars, scaleVars, stickVars, driftVars,
                   matrixVars>>

\* load_bold_estimates(cfg, contrast_file, mask_type='brain'), lines 156-168,
\* as load_bold_estimates does it but masking with the subject's own mask.
load_brain_estimates_SubjectMask(contrast, own_mask, masks_dir_mask) ==
    IF ~contrast.exists
    THEN [exc |-> "FileNotFoundError", data |-> <<>>]
    ELSE IF ~masks_dir_mask.exists
    THEN [exc |-> "FileNotFoundError", data |-> <<>>]
    ELSE [exc |-> NoException, data |-> fit_transform(own_mask, contrast.vols)]

\* load_bold_estimates(cfg, contrast_file, mask_type='brain'), lines 156-168:
\* the mask is masks_dir/brain_mask.nii.gz.
load_brain_estimates(contrast, own_mask, masks_dir_mask) ==
    IF ~contrast.exists
    THEN [exc |-> "FileNotFoundError", data |-> <<>>]
    ELSE IF ~masks_dir_mask.exists
    THEN [exc |-> "FileNotFoundError", data |-> <<>>]
    ELSE [exc |-> NoException,
          data |-> fit_transform(masks_dir_mask.voxels, contrast.vols)]

load_bold_estimates ==
    /\ save_pc = "saved"
    /\ LET r == load_brain_estimates(beta_file, brain_mask, group_mask)
       IN /\ estimates' = r.data
          /\ save_pc' = IF r.exc = NoException THEN "loaded" ELSE r.exc
    /\ UNCHANGED <<desmat, betas, brain_mask, group_mask, beta_file,
                   labels_file, save_return>>
    /\ UNCHANGED <<designVars, resolveVars, mainVars, olsVars, scaleVars, stickVars, driftVars,
                   matrixVars>>

\* The column names a design matrix of this pipeline can have.
ColumnNames ==
    {<<"smaller", "_", "sooner", "_", "1">>,
     <<"larger", "_", "later", "_", "12">>,
     <<"smaller", "_", "sooner", "_", "1", "_", "derivative">>,
     <<"false", "_", "3">>,
     <<"other", "_", "2">>,
     <<"constant">>,
     <<"cosine", "0">>}

IsInjective(q) == \A i, j \in 1..Len(q) : q[i] = q[j] => i = j

\* Two beta tables: one without zeros, one with zeros and negative values.
BetaTables(nrows, ncols) ==
    {[r \in 1..nrows |-> [k \in 1..ncols |-> 10 * r + k]],
     [r \in 1..nrows |-> [k \in 1..ncols |-> r - k]]}

InitSave ==
    /\ cfg = ConfigAttrs
    /\ files = [s \in Subjects |-> SubjectFiles(PassingBehav, PassingBold, <<>>)]
    /\ desmat \in {q \in SeqsUpTo(ColumnNames, MaxCols) : IsInjective(q)}
    /\ brain_mask \in (SUBSET Grid) \ {{}}
    /\ group_mask \in {[exists |-> TRUE, voxels |-> m] :
                          m \in (SUBSET Grid) \ {{}}} \cup {NoMask}
    /\ betas \in BetaTables(Len(desmat), Cardinality(brain_mask))
    /\ beta_file = NoImage
    /\ labels_file = NoTable
    /\ save_pc = "idle"
    /\ save_return = NotReturned
    /\ estimates = <<>>
    /\ IdleDesign /\ IdleResolve /\ IdleMain /\ IdleOLS /\ IdleScale
    /\ IdleStick /\ IdleDrift /\ IdleMatrix

NextSave == save_beta_series \/ load_bold_estimates

SpecSave == InitSave /\ [][NextSave]_vars

(***************************************************************************)
(* Properties of save_beta_series and of the read back.                    *)
(***************************************************************************)
HasTrialKeyword(name) ==
    \E j \in 1..Len(name) : name[j] \in {"smaller", "larger", "false"}

\* The indices of the trial columns, and the k-th of them in column order.
TrialColumns == {i \in 1..Len(desmat) : HasTrialKeyword(desmat[i])}
TrialColumn(k) ==
    CHOOSE i \in TrialColumns : Cardinality({j \in TrialColumns : j <= i}) = k

WithoutTrailingNumber(name) ==
    IF /\ Len(name) >= 2
       /\ name[Len(name) - 1] = "_"
       /\ name[Len(name)] \in DigitRuns
    THEN [i \in 1..(Len(name) - 2) |-> name[i]]
    ELSE name

\* The kept beta array: the rows of betas of the trial columns, in order.
KeptBetas == [k \in 1..Cardinality(TrialColumns) |-> betas[TrialColumn(k)]]
KeptLabels ==
    [k \in 1..Cardinality(TrialColumns) |->
        WithoutTrailingNumber(desmat[TrialColumn(k)])]

\* C5: save_beta_series returns the list of filtered labels of the betas it
\* kept, one per kept beta, in the order of the kept betas.
C5_ReturnsKeptLabels ==
    save_pc \in {"saved", "loaded"} => save_return = List(KeptLabels)

\* C6: the volumes written are exactly the beta rows of the columns whose
\* name contains 'smaller', 'larger' or 'false', in column order, and the
\* labels file has one entry per volume, entry i being the i-th kept column's
\* name without its trailing '_<digits>'.
C6_OnlyTrialRegressorsSaved ==
    save_pc \in {"saved", "loaded"} =>
        /\ beta_file.exists /\ labels_file.exists
        /\ Len(beta_file.vols) = Cardinality(TrialColumns)
        /\ \A k \in 1..Len(beta_file.vols) : \A v \in brain_mask :
              beta_file.vols[k][v] = betas[TrialColumn(k)][Rank(brain_mask, v)]
        /\ Len(labels_file.rows) = Len(beta_file.vols)
        /\ \A k \in 1..Len(labels_file.rows) :
              labels_file.rows[k] =
                  WithoutTrailingNumber(desmat[TrialColumn(k)])

\* A save that dropped a constant and a drift column around a 'false' trial.
C6_Witness ==
    /\ save_pc = "saved"
    /\ desmat = <<<<"constant">>, <<"false", "_", "3">>, <<"cosine", "0">>>>
    /\ labels_file.rows = <<<<"false">>>>
    /\ Len(beta_file.vols) = 1

\* C7 as claimed: the array read back is the kept beta array.
C7_ReadBackIsKeptBetas ==
    save_pc = "loaded" => estimates = KeptBetas

\* C7 as amended: the array read back has one row per kept beta and one
\* column per voxel of masks_dir/brain_mask.nii.gz; a column of a voxel that
\* is also in the subject's mask holds the kept betas of that voxel, a column
\* of a voxel outside the subject's mask holds 0; it is the kept beta array
\* when the two masks select the same voxels.
C7_ReadBackThroughGroupMask ==
    save_pc = "loaded" =>
        /\ Len(estimates) = Len(KeptBetas)
        /\ \A r \in 1..Len(estimates) :
              /\ Len(estimates[r]) = Cardinality(group_mask.voxels)
              /\ \A k \in 1..Len(estimates[r]) :
                    LET v == VoxelAt(group_mask.voxels, k) IN
                    estimates[r][k] =
                        IF v \in brain_mask
                        THEN KeptBetas[r][Rank(brain_mask, v)]
                        ELSE 0
        /\ group_mask.voxels = brain_mask => estimates = KeptBetas

\* A read back of two kept betas through a mask that differs from the
\* subject's mask.
C7_Witness ==
    /\ save_pc = "loaded"
    /\ Len(estimates) = 2
    /\ group_mask.voxels # brain_mask
    /\ group_mask.voxels \cap brain_mask # {}

(***************************************************************************)
(* fmri_model.compute_betas.  A matrix is the sequence of its rows.  The   *)
(* arithmetic is exact: the inverse of an integer matrix is its adjugate   *)
(* over its determinant, and an array of quotients is kept as the integer  *)
(* numerators num with one common denominator den.                         *)
(***************************************************************************)
RECURSIVE SumSeq(_)
SumSeq(q) == IF q = <<>> THEN 0 ELSE Head(q) + SumSeq(Tail(q))

\* The sequence with the entries of f, each computed once.
AsArray(f) == f \o <<>>

Transpose(A) ==
    AsArray([j \in 1..Len(A[1]) |-> AsArray([i \in 1..Len(A) |-> A[i][j]])])

\* A @ B
MatMul(A, B) ==
    AsArray([i \in 1..Len(A) |-> AsArray([j \in 1..Len(B[1]) |->
        SumSeq([k \in 1..Len(B) |-> A[i][k] * B[k][j]])])])

\* M without row i and column j.
Minor(M, i, j) ==
    AsArray([r \in 1..(Len(M) - 1) |-> AsArray([c \in 1..(Len(M) - 1) |->
        M[IF r < i THEN r ELSE r + 1][IF c < j THEN c ELSE c + 1]])])

Sign(k) == IF k % 2 = 0 THEN 1 ELSE -1

RECURSIVE Det(_)
Det(M) ==
    IF Len(M) = 0 THEN 1
    ELSE SumSeq([j \in 1..Len(M) |->
                    Sign(1 + j) * M[1][j] * Det(Minor(M, 1, j))])

Adjugate(M) ==
    AsArray([i \in 1..Len(M) |-> AsArray([j \in 1..Len(M) |->
        Sign(i + j) * Det(Minor(M, j, i))])])

\* np.linalg.inv: LinAlgError for a singular matrix.
inv(M) ==
    IF Det(M) = 0
    THEN [exc |-> "LinAlgError", num |-> <<>>, den |-> 1]
    ELSE [exc |-> NoException, num |-> Adjugate(M), den |-> Det(M)]

\* As compute_betas, without the inverse: betas = X^T Y.
compute_betas_NoInverse(desmat_, data_array) ==
    [exc |-> NoException,
     num |-> MatMul(Transpose(desmat_), data_array),
     den |-> 1]

compute_betas(desmat_, data_array) ==
    LET Xt == Transpose(desmat_)
        XtX_inv == inv(MatMul(Xt, desmat_))
    IN IF XtX_inv.exc # NoException
       THEN XtX_inv
       ELSE [exc |-> NoException,
             num |-> MatMul(MatMul(XtX_inv.num, Xt), data_array),
             den |-> XtX_inv.den]

compute_betas_call ==
    /\ ols = NoBetas
    /\ ols' = compute_betas(X, Y)
    /\ UNCHANGED <<X, Y>>
    /\ UNCHANGED <<designVars, resolveVars, mainVars, saveVars, scaleVars, stickVars, driftVars,
                   matrixVars>>

Matrices(nrows, ncols, values) == [1..nrows -> [1..ncols -> values]]

InitOLS ==
    /\ cfg = ConfigAttrs
    /\ files = [s \in Subjects |-> SubjectFiles(PassingBehav, PassingBold, <<>>)]
    /\ \E nbetas \in {1, 2} : X \in Matrices(MaxTime, nbetas, {0, 1})
    /\ Y \in Matrices(MaxTime, 2, {-1, 2})
    /\ ols = NoBetas
    /\ IdleDesign /\ IdleResolve /\ IdleMain /\ IdleSave /\ IdleScale
    /\ IdleStick /\ IdleDrift /\ IdleMatrix

NextOLS == compute_betas_call

SpecOLS == InitOLS /\ [][NextOLS]_vars

\* C8: for X of shape (ntime, nbetas) and Y of shape (ntime, nvox) the array
\* B that compute_betas returns has shape (nbetas, nvox) and solves the
\* normal equations (X^T X) B = X^T Y, and the column of B of a voxel is what
\* compute_betas returns for that voxel's column of Y alone.
C8_NormalEquations ==
    ols.exc = NoException =>
        LET nbetas == Len(X[1])
            nvox == Len(Y[1])
            XtX(i, j) == SumSeq([t \in 1..Len(X) |-> X[t][i] * X[t][j]])
            XtY(i, k) == SumSeq([t \in 1..Len(X) |-> X[t][i] * Y[t][k]])
            alone == AsArray([k \in 1..nvox |->
                        compute_betas(X, [t \in 1..Len(Y) |-> <<Y[t][k]>>])])
        IN /\ ols.den # 0
           /\ Len(ols.num) = nbetas
           /\ \A i \in 1..nbetas : Len(ols.num[i]) = nvox
           /\ \A i \in 1..nbetas, k \in 1..nvox :
                 SumSeq([j \in 1..nbetas |-> XtX(i, j) * ols.num[j][k]])
                     = ols.den * XtY(i, k)
           /\ \A i \in 1..nbetas, k \in 1..nvox :
                 alone[k].num[i][1] * ols.den = ols.num[i][k] * alone[k].den

\* Betas of two regressors whose X^T X is neither diagonal nor of
\* determinant 1, for data that differ between the voxels.
C8_Witness ==
    /\ ols.exc = NoException
    /\ Len(X[1]) = 2
    /\ ols.den \notin {-1, 0, 1}
    /\ \E t \in 1..Len(X) : X[t][1] # 0 /\ X[t][2] # 0
    /\ \E i \in 1..2 : ols.num[i][1] # ols.num[i][2]

(***************************************************************************)
(* fmri_io.calculate_grand_mean_scale and load_and_gm_scale_bold_data.     *)
(* A quotient is kept exactly, as [num, den]; den = 0 stands for what      *)
(* floating point gives on division by zero (inf, or nan when num = 0).    *)
(***************************************************************************)
Quot(n, d) == [num |-> n, den |-> d]

\* The masked data of img: one row per timepoint, one column per voxel of mask.
MaskedData(mask, img) == AsArray(fit_transform(mask, img))

\* brain_data.mean(): the sum of all entries over their number.
GrandMean(data) ==
    Quot(SumSeq([t \in 1..Len(data) |-> SumSeq(data[t])]),
         Len(data) * Len(data[1]))

\* data * scale_factor
ScaleBy(data, factor) ==
    AsArray([t \in 1..Len(data) |-> AsArray([k \in 1..Len(data[t]) |->
        Quot(data[t][k] * factor.num, factor.den)])])

\* calculate_grand_mean_scale(cfg, subid), lines 15-47.
calculate_grand_mean_scale(c, fs, subid, img, own_mask) ==
    LET bold_file == resolve_file(c, fs, subid, "bold")
        brain_mask_file == resolve_file(c, fs, subid, "mask")
        brain_data == MaskedData(own_mask, img)
        grand_mean == GrandMean(brain_data)
        scale_factor == Quot(100 * grand_mean.den, grand_mean.num)
    IN IF bold_file.exc # NoException
       THEN [exc |-> bold_file.exc, scale_factor |-> Quot(0, 1),
             scaled_brain_data |-> <<>>, brain_masker |-> {}]
       ELSE IF brain_mask_file.exc # NoException
       THEN [exc |-> brain_mask_file.exc, scale_factor |-> Quot(0, 1),
             scaled_brain_data |-> <<>>, brain_masker |-> {}]
       ELSE [exc |-> NoException, scale_factor |-> scale_factor,
             scaled_brain_data |-> ScaleBy(brain_data, scale_factor),
             brain_masker |-> own_mask]

Raises(exc) == [exc |-> exc, data |-> <<>>, masker |-> {}]

\* As load_and_gm_scale_bold_data, without the test that the ROI mask file
\* exists: the masker is fitted on whatever the name leads to.
load_and_gm_scale_bold_data_NoExistsTest(c, fs, subid, img, own_mask, mtype, roi) ==
    LET bold_file == resolve_file(c, fs, subid, "bold")
        gm == calculate_grand_mean_scale(c, fs, subid, img, own_mask)
        roi_data == MaskedData(roi.voxels, img)
    IN IF bold_file.exc # NoException THEN Raises(bold_file.exc)
       ELSE IF gm.exc # NoException THEN Raises(gm.exc)
       ELSE IF mtype = "brain"
       THEN [exc |-> NoException, data |-> gm.scaled_brain_data,
             masker |-> gm.brain_masker]
       ELSE IF mtype = "roi"
       THEN IF roi.name = "None" THEN Raises("ValueError")
            ELSE [exc |-> NoException,
                  data |-> ScaleBy(roi_data, gm.scale_factor),
                  masker |-> roi.voxels]
       ELSE Raises("ValueError")

\* load_and_gm_scale_bold_data(cfg, subid, mask_type, roi_mask_name),
\* lines 87-117.
load_and_gm_scale_bold_data(c, fs, subid, img, own_mask, mtype, roi) ==
    LET bold_file == resolve_file(c, fs, subid, "bold")
        gm == calculate_grand_mean_scale(c, fs, subid, img, own_mask)
        roi_data == MaskedData(roi.voxels, img)
    IN IF bold_file.exc # NoException THEN Raises(bold_file.exc)
       ELSE IF gm.exc # NoException THEN Raises(gm.exc)
       ELSE IF mtype = "brain"
       THEN [exc |-> NoException, data |-> gm.scaled_brain_data,
             masker |-> gm.brain_masker]
       ELSE IF mtype = "roi"
       THEN IF roi.name = "None" THEN Raises("ValueError")
            ELSE IF ~roi.exists THEN Raises("FileNotFoundError")
            ELSE [exc |-> NoException,
                  data |-> ScaleBy(roi_data, gm.scale_factor),
                  masker |-> roi.voxels]
       ELSE Raises("ValueError")

load_and_gm_scale_call ==
    /\ scaled = NotScaled
    /\ scaled' = load_and_gm_scale_bold_data(cfg, files, "s01", bold_img,
                                             brain_mask, mask_type, roi_mask)
    /\ UNCHANGED <<bold_img, roi_mask, mask_type, brain_mask>>
    /\ UNCHANGED <<desmat, betas, group_mask, beta_file, labels_file, save_pc,
                   save_return, estimates>>
    /\ UNCHANGED <<designVars, resolveVars, mainVars, olsVars, stickVars,
                   driftVars, matrixVars>>

Scans == 1..2
NonEmptyMasks == (SUBSET Grid) \ {{}}

\* The roi_mask_name argument and the file it names: no name, a name with
\* no file, or a file with its voxels on the BOLD grid.
RoiArguments ==
    {[name |-> "None", exists |-> FALSE, voxels |-> {}],
     [name |-> "roi.nii.gz", exists |-> FALSE, voxels |-> {}]}
    \cup {[name |-> "roi.nii.gz", exists |-> TRUE, voxels |-> m] :
             m \in NonEmptyMasks}

InitScale ==
    /\ cfg = ConfigAttrs
    /\ \E nb \in 0..MaxMatches, nm \in 0..MaxMatches :
          files = [s \in Subjects |->
                      [SubjectFiles(PassingBehav, PassingBold, <<>>)
                          EXCEPT !.nbold = nb, !.nmask = nm]]
    /\ bold_img \in [Scans -> [Grid -> {-1, 1, 2}]]
    /\ brain_mask \in NonEmptyMasks
    /\ mask_type \in {"brain", "roi", "whole"}
    /\ roi_mask \in RoiArguments
    /\ (files["s01"].nbold # 1 \/ files["s01"].nmask # 1) =>
          /\ bold_img = [t \in Scans |-> [v \in Grid |-> 1]]
          /\ brain_mask = Grid
    /\ mask_type # "roi" => roi_mask.name = "None"
    /\ scaled = NotScaled
    /\ desmat = <<>>
    /\ betas = <<>>
    /\ group_mask = NoMask
    /\ beta_file = NoImage
    /\ labels_file = NoTable
    /\ save_pc = "idle"
    /\ save_return = NotReturned
    /\ estimates = <<>>
    /\ IdleDesign /\ IdleResolve /\ IdleMain /\ IdleOLS
    /\ IdleStick /\ IdleDrift /\ IdleMatrix

NextScale == load_and_gm_scale_call

SpecScale == InitScale /\ [][NextScale]_vars

(***************************************************************************)
(* Properties of the grand-mean scaling.                                   *)
(***************************************************************************)
\* The sum and the number of the BOLD values inside the subject's mask.
BrainSum ==
    SumSeq([t \in 1..Len(bold_img) |->
        SumSeq([k \in 1..Cardinality(brain_mask) |->
            bold_img[t][VoxelAt(brain_mask, k)]])])
BrainCount == Len(bold_img) * Cardinality(brain_mask)

\* q is the number n.
IsNumber(q, n) == q.den # 0 /\ q.num = n * q.den

\* Each entry of the returned data is the BOLD value of its voxel times
\* 100 / (BrainSum / BrainCount).
ScaledByBrainFactor ==
    \A t \in 1..Len(scaled.data) : \A k \in 1..Len(scaled.data[t]) :
        LET d == bold_img[t][VoxelAt(scaled.masker, k)] IN
        scaled.data[t][k].num * BrainSum
            = d * 100 * BrainCount * scaled.data[t][k].den

ReturnedFor(mtype) == scaled.exc = NoException /\ mask_type = mtype

\* C9 as claimed: the data returned for mask_type 'brain' are the brain data
\* times 100 / (their mean) and have grand mean 100; the data returned for
\* mask_type 'roi' are the ROI data times the same brain-derived factor.
C9_GrandMeanIs100 ==
    /\ ReturnedFor("brain") =>
          /\ scaled.masker = brain_mask
          /\ ScaledByBrainFactor
          /\ LET total == SumSeq([t \in 1..Len(scaled.data) |->
                            SumSeq([k \in 1..Len(scaled.data[t]) |->
                                scaled.data[t][k].num])])
             IN IsNumber(Quot(total, scaled.data[1][1].den * BrainCount), 100)
    /\ ReturnedFor("roi") =>
          /\ scaled.masker = roi_mask.voxels
          /\ ScaledByBrainFactor

\* What the scaling does on all data: every returned entry is its BOLD value
\* times 100 * BrainCount over BrainSum, and the grand mean of the brain data
\* is 100 when BrainSum is not zero.
GrandMeanIs100UnlessZeroMean ==
    /\ ReturnedFor("brain") =>
          /\ scaled.masker = brain_mask
          /\ ScaledByBrainFactor
          /\ \A t \in 1..Len(scaled.data) : \A k \in 1..Len(scaled.data[t]) :
                scaled.data[t][k].den = BrainSum
          /\ LET total == SumSeq([t \in 1..Len(scaled.data) |->
                            SumSeq([k \in 1..Len(scaled.data[t]) |->
                                scaled.data[t][k].num])])
             IN BrainSum # 0 => IsNumber(Quot(total, BrainSum * BrainCount), 100)
    /\ ReturnedFor("roi") =>
          /\ scaled.masker = roi_mask.voxels
          /\ \A t \in 1..Len(scaled.data) : \A k \in 1..Len(scaled.data[t]) :
                scaled.data[t][k].den = BrainSum
          /\ ScaledByBrainFactor

\* ROI data, of a ROI that is not the brain mask and whose mean differs
\* from the brain's, returned scaled by a brain mean that is not zero.
RoiScaledByBrainMean ==
    /\ ReturnedFor("roi")
    /\ roi_mask.voxels # brain_mask
    /\ BrainSum # 0
    /\ LET roi_sum == SumSeq([t \in 1..Len(bold_img) |->
                          SumSeq([k \in 1..Cardinality(roi_mask.voxels) |->
                              bold_img[t][VoxelAt(roi_mask.voxels, k)]])])
       IN roi_sum * Cardinality(brain_mask)
              # BrainSum * Cardinality(roi_mask.voxels)

(***************************************************************************)
(* The errors of load_and_gm_scale_bold_data.                              *)
(***************************************************************************)
Called == scaled # NotScaled
RaisedOnly(exc) == scaled = Raises(exc)

\* The subject's BOLD file and brain mask each resolve to exactly one file.
SubjectFilesResolve ==
    /\ resolve_file(cfg, files, "s01", "bold").exc = NoException
    /\ resolve_file(cfg, files, "s01", "mask").exc = NoException

UnknownMaskType == mask_type \notin {"brain", "roi"}
RoiWithoutName == mask_type = "roi" /\ roi_mask.name = "None"
RoiFileMissing ==
    mask_type = "roi" /\ roi_mask.name # "None" /\ ~roi_mask.exists

MaxTicks == 4       \* longest stick array, in units of time

Min(a, b) == IF a < b THEN a ELSE b
Max(a, b) == IF a > b THEN a ELSE b

\* np.floor(a / b) and np.ceil(a / b) for b > 0.
floor(a, b) == a \div b
ceil(a, b) == -((-a) \div b)

\* Where the bound i of a slice falls in an array of n entries: a negative
\* bound counts from the end, and the bound is clipped to 0..n.
SliceBound(i, n) == IF i < 0 THEN Max(i + n, 0) ELSE Min(i, n)

\* array[start:end] = value; entry j of the array is array[j + 1] here.
SliceAssign(array, start, end, value) ==
    [j \in 1..Len(array) |->
        IF /\ SliceBound(start, Len(array)) <= j - 1
           /\ j - 1 < SliceBound(end, Len(array))
        THEN value
        ELSE array[j]]

\* The loop of lines 40-43 from the k-th pair of zip(onsets, durations) on.
RECURSIVE StickLoop(_, _, _, _, _)
StickLoop(array, onsets, durations, resolution, k) ==
    IF k > Min(Len(onsets), Len(durations)) THEN array
    ELSE LET start_idx == floor(onsets[k], resolution)
             end_idx == ceil(onsets[k] + durations[k], resolution)
         IN StickLoop(SliceAssign(array, start_idx, end_idx, 1),
                      onsets, durations, resolution, k + 1)

\* As make_stick_array, with the end of an event rounded down.
make_stick_array_EndFloor(onsets, durations, length, resolution) ==
    LET n_points == ceil(length, resolution)
        zeros == [j \in 1..n_points |-> 0]
        RECURSIVE L(_, _)
        L(array, k) ==
            IF k > Min(Len(onsets), Len(durations)) THEN array
            ELSE L(SliceAssign(array, floor(onsets[k], resolution),
                               floor(onsets[k] + durations[k], resolution), 1),
                   k + 1)
    IN IF n_points < 0 THEN [exc |-> "ValueError", array |-> <<>>]
       ELSE [exc |-> NoException, array |-> L(zeros, 1)]

\* make_stick_array(onsets, durations, length, resolution), lines 38-44.
make_stick_array(onsets, durations, length, resolution) ==
    LET n_points == ceil(length, resolution)
        zeros == [j \in 1..n_points |-> 0]
    IN IF n_points < 0 THEN [exc |-> "ValueError", array |-> <<>>]
       ELSE [exc |-> NoException,
             array |-> StickLoop(zeros, onsets, durations, resolution, 1)]

make_stick_array_call ==
    /\ sf = NotCalled
    /\ sf' = make_stick_array(stick_args.onsets, stick_args.durations,
                              stick_args.length, stick_args.resolution)
    /\ UNCHANGED stick_args
    /\ UNCHANGED <<designVars, resolveVars, mainVars, saveVars, olsVars,
                   scaleVars, driftVars, matrixVars>>

\* Event times as create_design_matrices hands them on: no negative onset
\* (lines 393-396), no negative duration; an event may start or end after
\* the end of the array.
Onsets == 0..(MaxTicks + 1)
Durations == 0..2
Resolutions == {1, 2, 3}

InitStick ==
    /\ cfg = ConfigAttrs
    /\ files = [s \in Subjects |-> SubjectFiles(PassingBehav, PassingBold, <<>>)]
    /\ \E onsets \in SeqsUpTo(Onsets, 2), durations \in SeqsUpTo(Durations, 2),
          length \in 1..MaxTicks, resolution \in Resolutions :
          stick_args = [onsets |-> onsets, durations |-> durations,
                        length |-> length, resolution |-> resolution]
    /\ sf = NotCalled
    /\ IdleDesign /\ IdleResolve /\ IdleMain /\ IdleSave /\ IdleOLS
    /\ IdleScale /\ IdleDrift /\ IdleMatrix

NextStick == make_stick_array_call

SpecStick == InitStick /\ [][NextStick]_vars

\* The (onset, duration) pairs of the call, and whether one covers sample i.
EventPairs == 1..Min(Len(stick_args.onsets), Len(stick_args.durations))
Covers(k, i) ==
    /\ floor(stick_args.onsets[k], stick_args.resolution) <= i
    /\ i < ceil(stick_args.onsets[k] + stick_args.durations[k],
                stick_args.resolution)

\* C12: the array has ceil(length / resolution) samples, each 0 or 1, and
\* sample i is 1 exactly when floor(onset / resolution) <= i <
\* ceil((onset + duration) / resolution) for some (onset, duration) pair; an
\* event reaching past the end sets no sample before its start.
C12_StickArrayCoversEvents ==
    sf # NotCalled =>
        /\ sf.exc = NoException
        /\ Len(sf.array) = ceil(stick_args.length, stick_args.resolution)
        /\ \A i \in 0..(Len(sf.array) - 1) :
              /\ sf.array[i + 1] \in {0, 1}
              /\ sf.array[i + 1] = 1 <=> \E k \in EventPairs : Covers(k, i)

\* An array with a sample left at 0 before an event that reaches past the
\* end of the array, the length not being a multiple of the resolution.
C12_Witness ==
    /\ sf # NotCalled
    /\ stick_args.length % stick_args.resolution # 0
    /\ \E k \in EventPairs :
          /\ ceil(stick_args.onsets[k] + stick_args.durations[k],
                  stick_args.resolution) > Len(sf.array)
          /\ floor(stick_args.onsets[k], stick_args.resolution) \in
                1..(Len(sf.array) - 1)
    /\ sf.array[1] = 0
    /\ sf.array[Len(sf.array)] = 1

(***************************************************************************)
(* design_utils.create_cosine_drift.  Timepoints are whole seconds and     *)
(* cutoff_hz is a quotient [num, den], so that n_cos is exact.  The value  *)
(* cos(pi * a / m), a >= 0, is written as the c in 0..m with               *)
(* cos(pi * c / m) = cos(pi * a / m): two entries are the same number      *)
(* exactly when they are written the same.                                 *)
(***************************************************************************)
MaxTrs == 4         \* most timepoints of a run

cos_pi(a, m) ==
    LET r == a % (2 * m) IN IF r > m THEN 2 * m - r ELSE r

\* np.linspace(0, stop, num, endpoint=False)
linspace(stop, num) == [i \in 1..num |-> (stop * (i - 1)) \div num]

\* As create_cosine_drift, with n_cos = floor((t[-1] - t[0]) * cutoff_hz).
create_cosine_drift_NoDoubling(cutoff_hz, timepoints) ==
    LET t == timepoints
        n == Len(t)
        n_cos == floor((t[n] - t[1]) * cutoff_hz.num, cutoff_hz.den)
    IN IF n = 0 THEN [exc |-> "IndexError", array |-> <<>>]
       ELSE IF n_cos < 1
       THEN [exc |-> NoException, array |-> [i \in 1..n |-> <<>>]]
       ELSE [exc |-> NoException,
             array |-> [i \in 1..n |-> [k \in 1..n_cos |->
                           cos_pi((2 * t[i] + 1) * k, 2 * n)]]]

\* create_cosine_drift(cutoff_hz, timepoints), lines 63-72.  The array is
\* the sequence of its rows; (n, 0) is n empty rows.
create_cosine_drift(cutoff_hz, timepoints) ==
    LET t == timepoints
        n == Len(t)
        n_cos == floor(2 * (t[n] - t[1]) * cutoff_hz.num, cutoff_hz.den)
    IN IF n = 0 THEN [exc |-> "IndexError", array |-> <<>>]
       ELSE IF n_cos < 1
       THEN [exc |-> NoException, array |-> [i \in 1..n |-> <<>>]]
       ELSE [exc |-> NoException,
             array |-> [i \in 1..n |-> [k \in 1..n_cos |->
                           cos_pi((2 * t[i] + 1) * k, 2 * n)]]]

create_cosine_drift_call ==
    /\ dct_basis = NotCalled
    /\ dct_basis' = create_cosine_drift(drift_args.cutoff_hz,
                                        drift_args.timepoints)
    /\ UNCHANGED drift_args
    /\ UNCHANGED <<designVars, resolveVars, mainVars, saveVars, olsVars,
                   scaleVars, stickVars, matrixVars>>

\* The cutoffs and repetition times of the calls, and the timepoints as
\* create_design_matrix hands them on (line 111).
Cutoffs == {[num |-> p, den |-> q] : p \in 1..3, q \in 1..6}
TRs == {1, 2, 3}

InitDrift ==
    /\ cfg = ConfigAttrs
    /\ files = [s \in Subjects |-> SubjectFiles(PassingBehav, PassingBold, <<>>)]
    /\ \E cutoff_hz \in Cutoffs, tr \in TRs, num_trs \in 1..MaxTrs :
          drift_args = [cutoff_hz |-> cutoff_hz,
                        timepoints |-> linspace(tr * num_trs, num_trs)]
    /\ dct_basis = NotCalled
    /\ IdleDesign /\ IdleResolve /\ IdleMain /\ IdleSave /\ IdleOLS
    /\ IdleScale /\ IdleStick /\ IdleMatrix

NextDrift == create_cosine_drift_call

SpecDrift == InitDrift /\ [][NextDrift]_vars

\* floor(2 * (t_last - t_first) * cutoff_hz) of the call.
NCos ==
    LET t == drift_args.timepoints IN
    floor(2 * (t[Len(t)] - t[1]) * drift_args.cutoff_hz.num,
          drift_args.cutoff_hz.den)

\* C14: the array has len(timepoints) rows and n_cos =
\* floor(2 * (t_last - t_first) * cutoff_hz) columns, and len(timepoints)
\* rows and no column when n_cos < 1.
C14_DriftShape ==
    dct_basis # NotCalled =>
        /\ dct_basis.exc = NoException
        /\ Len(dct_basis.array) = Len(drift_args.timepoints)
        /\ \A i \in 1..Len(dct_basis.array) :
              Len(dct_basis.array[i]) = IF NCos < 1 THEN 0 ELSE NCos

\* A drift array of several rows and an odd number of columns, at least 3.
C14_Witness ==
    /\ dct_basis # NotCalled
    /\ Len(dct_basis.array) >= 2
    /\ NCos >= 3 /\ NCos % 2 = 1
    /\ Len(dct_basis.array[1]) = NCos

\* A drift array of several rows and no column.
DriftWithoutColumns ==
    /\ dct_basis # NotCalled
    /\ Len(dct_basis.array) >= 2
    /\ dct_basis.array[1] = <<>>

(***************************************************************************)
(* design_utils.create_design_matrix.  A data frame is the sequence of its *)
(* columns [name, data]; a name is the sequence of its '_'-separated       *)
(* tokens, as in save_beta_series.  An entry of a column is written        *)
(* [kind, arg]: a convolved sample is the sum of the kernel ("hrf" or      *)
(* "hrf_deriv") over the lags in arg, a cosine is cos_pi's c in arg, the   *)
(* constant is "one".  The kernels span 32 s, longer than the runs here,   *)
(* so no lag falls off the kernel.                                         *)
(* tr, maxtime and conv_resolution are floats in the code.  The quotient   *)
(* maxtime / conv_resolution = (tr * num_trs) / (tr / oversampling) is     *)
(* num_trs * oversampling in exact arithmetic; in double precision it may  *)
(* come out just above it (tr = 0.68, oversampling = 10, num_trs = 95      *)
(* gives 950.0000000000001), and then np.ceil gives one point more.        *)
(* ceil_excess, 0 or 1, is that excess for the floats of the call.         *)
(***************************************************************************)
Entry(kind, arg) == [kind |-> kind, arg |-> arg]
One == Entry("one", {})
NaN == Entry("nan", {})
str(i) ==
    <<"0", "1", "2", "3", "4", "5", "6", "7", "8", "9", "10", "11", "12", "13",
      "14", "15", "16", "17", "18", "19", "20">>[i + 1]

\* Series.unique(): the distinct values in order of first appearance.
RECURSIVE unique(_)
unique(q) ==
    IF q = <<>> THEN <<>>
    ELSE LET front == unique(SubSeq(q, 1, Len(q) - 1))
             last == q[Len(q)]
         IN IF \E i \in 1..Len(front) : front[i] = last
            THEN front
            ELSE Append(front, last)

\* d[key] = data for a dict or a data frame d: a new key goes to the end, a
\* key already there keeps its place.
SetItem(d, key, data) ==
    IF \E i \in 1..Len(d) : d[i].name = key
    THEN [i \in 1..Len(d) |->
             IF d[i].name = key THEN [name |-> key, data |-> data] ELSE d[i]]
    ELSE Append(d, [name |-> key, data |-> data])

\* fftconvolve(sf_array, kernel)[: len(sf_array)]
fftconvolve(sf_array, kernel) ==
    [j \in 1..Len(sf_array) |->
        Entry(kernel, {j - i : i \in {i \in 1..j : sf_array[i] = 1}})]

\* signal[::step]
Downsample(signal, step) ==
    [r \in 1..ceil(Len(signal), step) |-> signal[(r - 1) * step + 1]]

\* The loop of lines 128-141 from the k-th trial type on.  A time x is
\* handed to make_stick_array as x * oversampling and the resolution
\* tr / oversampling as tr: the quotients by the resolution are the same.
RECURSIVE ConvLoop(_, _, _, _, _, _, _, _, _)
ConvLoop(conv_dict, events, trial_types, oversampling, tr, maxtime, add_deriv, ceil_excess, k) ==
    IF k > Len(trial_types) THEN conv_dict
    ELSE LET trial_type == trial_types[k]
             IsType(row) == row.trial_type = trial_type
             trial_events == SelectSeq(events, IsType)
             onsets == [i \in 1..Len(trial_events) |->
                           trial_events[i].onset * oversampling]
             durations == [i \in 1..Len(trial_events) |->
                              trial_events[i].duration * oversampling]
             sf_array ==
                 make_stick_array(onsets, durations,
                                  maxtime * oversampling + ceil_excess,
                                  tr).array
             conv_signal == fftconvolve(sf_array, "hrf")
             deriv_signal == fftconvolve(sf_array, "hrf_deriv")
             with_type == SetItem(conv_dict, trial_type,
                                  Downsample(conv_signal, oversampling))
             with_deriv ==
                 IF add_deriv
                 THEN SetItem(with_type, trial_type \o <<"_", "derivative">>,
                              Downsample(deriv_signal, oversampling))
                 ELSE with_type
         IN ConvLoop(with_deriv, events, trial_types, oversampling, tr,
                     maxtime, add_deriv, ceil_excess, k + 1)

\* The values of column k of a 2-D array.
ColumnOf(array, k) == [i \in 1..Len(array) |-> array[i][k]]
nunique(data) == Cardinality({data[i] : i \in 1..Len(data)})

\* dct_df of lines 147-150: the columns 'cosine<i>' of dct_basis with more
\* than one distinct value.
dct_df(dct_basis_) ==
    LET ncols == IF dct_basis_ = <<>> THEN 0 ELSE Len(dct_basis_[1])
        all == [k \in 1..ncols |->
                   [name |-> <<"cosine", str(k - 1)>>,
                    data |-> [i \in 1..Len(dct_basis_) |->
                                 Entry("cos", {dct_basis_[i][k]})]]]
        Varies(col) == nunique(col.data) > 1
    IN SelectSeq(all, Varies)

\* pd.concat([left, right], axis=1) of two frames with indices 0..n-1: the
\* rows are the union of the two indices, a missing entry is NaN.
concat(left, nleft, right, nright) ==
    LET n == Max(nleft, nright)
        Pad(col) == [name |-> col.name,
                     data |-> [i \in 1..n |->
                                  IF i <= Len(col.data) THEN col.data[i]
                                  ELSE NaN]]
    IN [k \in 1..(Len(left) + Len(right)) |->
           IF k <= Len(left) THEN Pad(left[k]) ELSE Pad(right[k - Len(left)])]

\* create_design_matrix(events_df_long, hp_filter_cutoff, oversampling, tr,
\* num_trs, add_deriv), lines 109-155.  pd.DataFrame raises ValueError for
\* a column that is not as long as the index.
create_design_matrix(events, hp_filter_cutoff, oversampling, tr, num_trs, add_deriv, ceil_excess) ==
    LET maxtime == tr * num_trs
        timepoints_data == linspace(maxtime, num_trs)
        trial_types ==
            unique([i \in 1..Len(events) |-> events[i].trial_type])
        conv_dict == ConvLoop(<<>>, events, trial_types, oversampling, tr,
                              maxtime, add_deriv, ceil_excess, 1)
        with_constant ==
            SetItem(conv_dict, <<"constant">>, [i \in 1..num_trs |-> One])
        drift == create_cosine_drift(hp_filter_cutoff, timepoints_data)
    IN IF \E k \in 1..Len(conv_dict) :
              Len(conv_dict[k].data) # Len(timepoints_data)
       THEN [exc |-> "ValueError", array |-> <<>>]
       ELSE IF hp_filter_cutoff.num = 0
       THEN [exc |-> NoException, array |-> with_constant]
       ELSE IF drift.exc # NoException
       THEN [exc |-> drift.exc, array |-> <<>>]
       ELSE [exc |-> NoException,
             array |-> concat(with_constant, num_trs,
                              dct_df(drift.array), Len(drift.array))]

create_design_matrix_call ==
    /\ desmtx_conv = NotCalled
    /\ desmtx_conv' = create_design_matrix(
           dm_args.events_df_long, dm_args.hp_filter_cutoff,
           dm_args.oversampling, dm_args.tr, dm_args.num_trs,
           dm_args.add_deriv, dm_args.ceil_excess)
    /\ UNCHANGED dm_args
    /\ UNCHANGED <<designVars, resolveVars, mainVars, saveVars, olsVars,
                   scaleVars, stickVars, driftVars>>

\* The events, cutoffs and sampling of the calls.
TrialTypes == {<<"smaller", "_", "1">>, <<"larger", "_", "2">>}
EventRows ==
    {[onset |-> o, duration |-> 1, trial_type |-> tt] :
        o \in {0, 1, 3}, tt \in TrialTypes}
HpCutoffs == {[num |-> 0, den |-> 1], [num |-> 1, den |-> 6],
              [num |-> 1, den |-> 2]}
Oversamplings == {2, 3}

InitMatrix ==
    /\ cfg = ConfigAttrs
    /\ files = [s \in Subjects |-> SubjectFiles(PassingBehav, PassingBold, <<>>)]
    /\ \E events \in SeqsUpTo(EventRows, 3), hp \in HpCutoffs,
          oversampling \in Oversamplings, tr \in {1, 2},
          num_trs \in 1..MaxTrs, add_deriv \in BOOLEAN,
          ceil_excess \in {0, 1} :
          dm_args = [events_df_long |-> events, hp_filter_cutoff |-> hp,
                     oversampling |-> oversampling, tr |-> tr,
                     num_trs |-> num_trs, add_deriv |-> add_deriv,
                     ceil_excess |-> ceil_excess]
    /\ desmtx_conv = NotCalled
    /\ IdleDesign /\ IdleResolve /\ IdleMain /\ IdleSave /\ IdleOLS
    /\ IdleScale /\ IdleStick /\ IdleDrift

NextMatrix == create_design_matrix_call

SpecMatrix == InitMatrix /\ [][NextMatrix]_vars

(***************************************************************************)
(* Properties of create_design_matrix.                                     *)
(***************************************************************************)
NthSmallest(S, r) == CHOOSE x \in S : Cardinality({y \in S : y < x}) = r - 1

\* The rows of events_df_long where a trial_type appears for the first time.
FirstAppearances ==
    {i \in 1..Len(dm_args.events_df_long) :
        \A j \in 1..(i - 1) : dm_args.events_df_long[j].trial_type
                                 # dm_args.events_df_long[i].trial_type}
ColumnsPerType == IF dm_args.add_deriv THEN 2 ELSE 1
NumTrialColumns == Cardinality(FirstAppearances) * ColumnsPerType

\* The name of the p-th trial column, p in 1..NumTrialColumns.
TrialColumnName(p) ==
    LET row == NthSmallest(FirstAppearances, (p - 1) \div ColumnsPerType + 1)
        tt == dm_args.events_df_long[row].trial_type
    IN IF (p - 1) % ColumnsPerType = 1
       THEN tt \o <<"_", "derivative">>
       ELSE tt

\* The cosine drift array of the call's cutoff and timepoints, and its
\* columns that are not constant.
DriftOfCall ==
    create_cosine_drift(dm_args.hp_filter_cutoff,
                        linspace(dm_args.tr * dm_args.num_trs,
                                 dm_args.num_trs)).array
NonConstantCosines ==
    IF dm_args.hp_filter_cutoff.num = 0 THEN {}
    ELSE {k \in 1..Len(DriftOfCall[1]) :
             \E i, j \in 1..Len(DriftOfCall) :
                 DriftOfCall[i][k] # DriftOfCall[j][k]}

\* The matrix returned has the rows and the columns C13 describes.
ColumnsAsClaimed ==
        LET dm == desmtx_conv.array IN
        /\ desmtx_conv.exc = NoException
        /\ \A k \in 1..Len(dm) : Len(dm[k].data) = dm_args.num_trs
        /\ Len(dm) = NumTrialColumns + 1 + Cardinality(NonConstantCosines)
        /\ \A p \in 1..NumTrialColumns :
              /\ dm[p].name = TrialColumnName(p)
              /\ \A i \in 1..Len(dm[p].data) :
                    dm[p].data[i].kind =
                        IF dm_args.add_deriv /\ p % 2 = 0
                        THEN "hrf_deriv" ELSE "hrf"
        /\ dm[NumTrialColumns + 1].name = <<"constant">>
        /\ \A i \in 1..dm_args.num_trs :
              dm[NumTrialColumns + 1].data[i] = One
        /\ \A q \in 1..Cardinality(NonConstantCosines) :
              LET k == NthSmallest(NonConstantCosines, q)
                  col == dm[NumTrialColumns + 1 + q]
              IN /\ col.name = <<"cosine", str(k - 1)>>
                 /\ \A i \in 1..Len(col.data) :
                       col.data[i] = Entry("cos", {DriftOfCall[i][k]})
\* C13: the design matrix has exactly num_trs rows; its columns are one
\* regressor per distinct trial_type in order of first appearance, each
\* followed by '<trial_type>_derivative' when add_deriv is True, then
\* 'constant', 1.0 in every row, then, only for a nonzero hp_filter_cutoff,
\* the cosine drift columns that are not constant.
C13_DesignMatrixColumns == desmtx_conv # NotCalled => ColumnsAsClaimed

\* What create_design_matrix does on all calls: with events and a quotient
\* maxtime / conv_resolution that rounds above num_trs * oversampling it
\* raises ValueError, otherwise it returns the matrix described.
ColumnsUnlessQuotientRoundsUp ==
    desmtx_conv # NotCalled =>
        IF dm_args.ceil_excess = 1 /\ dm_args.events_df_long # <<>>
        THEN desmtx_conv = [exc |-> "ValueError", array |-> <<>>]
        ELSE ColumnsAsClaimed

\* A matrix with derivatives of two trial types, the one that sorts last
\* appearing first and again after the other, and with a cosine column kept
\* after one that was dropped for being constant.
MatrixWithDroppedCosine ==
    /\ desmtx_conv # NotCalled
    /\ dm_args.add_deriv
    /\ Len(dm_args.events_df_long) = 3
    /\ dm_args.events_df_long[1].trial_type = <<"smaller", "_", "1">>
    /\ dm_args.events_df_long[2].trial_type = <<"larger", "_", "2">>
    /\ dm_args.events_df_long[3].trial_type = <<"smaller", "_", "1">>
    /\ Len(desmtx_conv.array) >= 7
    /\ \E k \in NonConstantCosines :
          \E d \in 1..(k - 1) : d \notin NonConstantCosines

====
